---- MODULE Spec2Model ----
(***************************************************************************)
(* Model of main.py of resume-summarizer: the Streamlit script that        *)
(* extracts text from an uploaded resume, asks Gemini for a JSON summary,  *)
(* parses the answer and fills a PowerPoint template.                      *)
(*                                                                         *)
(* A Python str is a sequence of characters; a character is a TLA+ string: *)
(* a printable character stands for itself, the others carry their ASCII   *)
(* or Unicode name ("NUL", "SOH", "LF", ...).                              *)
(***************************************************************************)
EXTENDS Integers, Sequences, FiniteSets, TLC

VARIABLES
    cleanIn, cleanOut, cleanPc,     \* clean_text: argument, result, position
    line, runs, boldPc,             \* apply_bold_markdown: text, the paragraph's runs
    shape, fitPrev, fitPc,          \* auto_fit_text: the box, the previous fit of it
    responseText, parsed, parsePc,  \* the response parsing of summarize_with_gemini
    template, prs, data, si, ki, lastNewText, fillPc,
                                    \* fill_ppt_template: the presentation, the
                                    \* as loaded and as filled, the dictionary,
                                    \* the loops' positions, new_text of the
                                    \* replacement just made
    pc, clicks, ui, steps, returned, failed, apiCalls, doc, extracted, sent
                                    \* the script: its position, the clicks so
                                    \* far and, of the current run, the elements
                                    \* shown, the steps called, returned and
                                    \* failed, the calls of the service, the
                                    \* document's text, the text extracted and
                                    \* the text put in the prompt

cleanVars == <<cleanIn, cleanOut, cleanPc>>

boldVars == <<line, runs, boldPc>>

fitVars == <<shape, fitPrev, fitPc>>

parseVars == <<responseText, parsed, parsePc>>

fillVars == <<template, prs, data, si, ki, lastNewText, fillPc>>

runVars == <<pc, clicks, ui, steps, returned, failed, apiCalls, doc, extracted, sent>>

vars == <<cleanVars, boldVars, fitVars, parseVars, fillVars, runVars>>

-----------------------------------------------------------------------------
(* Characters and the character classes of Python's re and str.            *)

Digits == {"0", "1", "2", "3", "4", "5", "6", "7", "8", "9"}

LowerSeq == <<"a", "b", "c", "d", "e", "f", "g", "h", "i", "j", "k", "l", "m",
              "n", "o", "p", "q", "r", "s", "t", "u", "v", "w", "x", "y", "z">>

UpperSeq == <<"A", "B", "C", "D", "E", "F", "G", "H", "I", "J", "K", "L", "M",
              "N", "O", "P", "Q", "R", "S", "T", "U", "V", "W", "X", "Y", "Z">>

Range(f) == {f[i] : i \in DOMAIN f}

Lower == Range(LowerSeq)

Upper == Range(UpperSeq)

\* \w of a str pattern: letters, digits and the underscore.
WordChars == Lower \cup Upper \cup Digits \cup {"_"}

\* [0-9A-Fa-f]
HexChars == Digits \cup {"A", "B", "C", "D", "E", "F", "a", "b", "c", "d", "e", "f"}

\* str.isspace(), which is also \s of a str pattern and what str.strip() removes.
PyWhitespace == {" ", "TAB", "LF", "VT", "FF", "CR", "FS", "GS", "RS", "US",
                 "NEL", "NBSP", "LSEP", "PSEP"}

\* U+0000, U+0001..U+0008, U+000B..U+000C, U+000E..U+001F
ControlChars == {"NUL", "SOH", "STX", "ETX", "EOT", "ENQ", "ACK", "BEL", "BS",
                 "VT", "FF", "SO", "SI", "DLE", "DC1", "DC2", "DC3", "DC4",
                 "NAK", "SYN", "ETB", "CAN", "EM", "SUB", "ESC", "FS", "GS",
                 "RS", "US"}

\* Both cases of a letter, for a pattern compiled with re.IGNORECASE.
AnyCase(c) ==
    IF \E i \in DOMAIN LowerSeq : LowerSeq[i] = c \/ UpperSeq[i] = c
    THEN LET i == CHOOSE j \in DOMAIN LowerSeq : LowerSeq[j] = c \/ UpperSeq[j] = c
         IN  {LowerSeq[i], UpperSeq[i]}
    ELSE {c}

\* str.upper() on one character and on a str.
UpperChar(c) ==
    IF c \in Lower
    THEN UpperSeq[CHOOSE i \in DOMAIN LowerSeq : LowerSeq[i] = c]
    ELSE c

upper(s) == [i \in DOMAIN s |-> UpperChar(s[i])]

-----------------------------------------------------------------------------
(* Sequences as Python strings.                                            *)

SetMin(S) == CHOOSE x \in S : \A y \in S : x <= y

SetMax(S) == CHOOSE x \in S : \A y \in S : x >= y

RECURSIVE SumSeq(_)
SumSeq(q) == IF q = <<>> THEN 0 ELSE Head(q) + SumSeq(Tail(q))

RECURSIVE Flatten(_)
Flatten(qq) == IF qq = <<>> THEN <<>> ELSE Head(qq) \o Flatten(Tail(qq))

\* All sequences over S of length at most n.
SeqsUpTo(S, n) == UNION {[1..k -> S] : k \in 0..n}

\* s[i:j] of Python with 0 <= i <= j <= len(s), as 1-based positions i+1..j.
Slice(s, i, j) == [k \in 1..(j - i) |-> s[i + k]]

\* s.startswith(p) at offset i (0-based).
HasAt(s, p, i) ==
    /\ i + Len(p) <= Len(s)
    /\ \A k \in 1..Len(p) : s[i + k] = p[k]

\* p in s
Contains(s, p) == \E i \in 0..Len(s) : HasAt(s, p, i)

startswith(s, p) == HasAt(s, p, 0)

endswith(s, p) == Len(p) <= Len(s) /\ HasAt(s, p, Len(s) - Len(p))

\* str.strip(): leading and trailing whitespace removed.
strip(s) ==
    LET keep == {i \in DOMAIN s : s[i] \notin PyWhitespace}
    IN  IF keep = {} THEN <<>> ELSE Slice(s, SetMin(keep) - 1, SetMax(keep))

\* str.replace(old, new) for a non-empty old: every non-overlapping occurrence,
\* scanning from the left.
RECURSIVE ReplaceFrom(_, _, _, _)
ReplaceFrom(s, old, new, i) ==
    IF i >= Len(s) THEN <<>>
    ELSE IF HasAt(s, old, i) THEN new \o ReplaceFrom(s, old, new, i + Len(old))
    ELSE <<s[i + 1]>> \o ReplaceFrom(s, old, new, i + 1)

replace(s, old, new) == ReplaceFrom(s, old, new, 0)

\* str.split(sep) for a one-character sep: always at least one piece.
RECURSIVE SplitFrom(_, _, _, _)
SplitFrom(s, sep, i, cur) ==
    IF i > Len(s) THEN <<cur>>
    ELSE IF s[i] = sep THEN <<cur>> \o SplitFrom(s, sep, i + 1, <<>>)
    ELSE SplitFrom(s, sep, i + 1, Append(cur, s[i]))

split(s, sep) == SplitFrom(s, sep, 1, <<>>)

\* sep.join(parts) for a one-character sep.
RECURSIVE join(_, _)
join(sep, parts) ==
    IF parts = <<>> THEN <<>>
    ELSE IF Len(parts) = 1 THEN parts[1]
    ELSE parts[1] \o <<sep>> \o join(sep, Tail(parts))

-----------------------------------------------------------------------------
(* Python's re on these strings.  A pattern is a sequence of elements;     *)
(* an element matches a run of characters of (or, with neg, outside) cs:   *)
(* exactly lo of them, or lo and more with many; lazy is the ? after a     *)
(* quantifier.  The engine backtracks as re does: a greedy element tries   *)
(* the longest run first, a lazy one the shortest.                         *)

El(cs, neg, lo, many, lazy) ==
    [cs |-> cs, neg |-> neg, lo |-> lo, many |-> many, lazy |-> lazy]

Lit(c) == El({c}, FALSE, 1, FALSE, FALSE)

LitI(c) == El(AnyCase(c), FALSE, 1, FALSE, FALSE)

Plus(cs) == El(cs, FALSE, 1, TRUE, FALSE)

Star(cs) == El(cs, FALSE, 0, TRUE, FALSE)

Times(cs, n) == El(cs, FALSE, n, FALSE, FALSE)

NotPlus(cs) == El(cs, TRUE, 1, TRUE, FALSE)

NotStar(cs) == El(cs, TRUE, 0, TRUE, FALSE)

NotStarLazy(cs) == El(cs, TRUE, 0, TRUE, TRUE)

LitSeq(s) == [i \in DOMAIN s |-> Lit(s[i])]

LitSeqI(s) == [i \in DOMAIN s |-> LitI(s[i])]

ElAccepts(e, c) == (c \in e.cs) # e.neg

\* How many characters from offset i on the element accepts in a row.
RECURSIVE MaxRun(_, _, _)
MaxRun(e, s, i) ==
    IF i < Len(s) /\ ElAccepts(e, s[i + 1]) THEN 1 + MaxRun(e, s, i + 1) ELSE 0

NoMatch == <<-1>>

\* The match of elements k.. of pat at offset i: the number of characters each
\* element takes, or NoMatch.  TryLen gives element k n characters and, when the
\* rest of the pattern does not match after them, tries the next length towards
\* last.
RECURSIVE MatchFrom(_, _, _, _)
RECURSIVE TryLen(_, _, _, _, _, _)

TryLen(pat, k, s, i, n, last) ==
    LET rest == MatchFrom(pat, k + 1, s, i + n)
    IN  IF rest # NoMatch THEN <<n>> \o rest
        ELSE IF n = last THEN NoMatch
        ELSE TryLen(pat, k, s, i, IF last > n THEN n + 1 ELSE n - 1, last)

MatchFrom(pat, k, s, i) ==
    IF k > Len(pat) THEN <<>>
    ELSE LET e   == pat[k]
             run == MaxRun(e, s, i)
             top == IF e.many \/ run < e.lo THEN run ELSE e.lo
         IN  IF top < e.lo THEN NoMatch
             ELSE IF e.lazy THEN TryLen(pat, k, s, i, e.lo, top)
             ELSE TryLen(pat, k, s, i, top, e.lo)

MatchAt(pat, s, i) == MatchFrom(pat, 1, s, i)

\* re.finditer: the matches from the left, not overlapping, as
\* [at |-> offset, lens |-> the elements' lengths].  No pattern of the program
\* matches the empty string.
RECURSIVE FindFrom(_, _, _)
FindFrom(pat, s, i) ==
    IF i >= Len(s) THEN <<>>
    ELSE LET m == MatchAt(pat, s, i)
         IN  IF m = NoMatch THEN FindFrom(pat, s, i + 1)
             ELSE <<[at |-> i, lens |-> m]>> \o FindFrom(pat, s, i + SumSeq(m))

finditer(pat, s) == FindFrom(pat, s, 0)

\* re.sub(pat, repl, s) for a literal repl.
RECURSIVE SubFrom(_, _, _, _)
SubFrom(pat, repl, s, i) ==
    IF i >= Len(s) THEN <<>>
    ELSE LET m == MatchAt(pat, s, i)
         IN  IF m = NoMatch THEN <<s[i + 1]>> \o SubFrom(pat, repl, s, i + 1)
             ELSE repl \o SubFrom(pat, repl, s, i + SumSeq(m))

sub(pat, repl, s) == SubFrom(pat, repl, s, 0)

\* for pattern in patterns: text = re.sub(pattern, repl, text)
RECURSIVE SubAll(_, _, _)
SubAll(patterns, repl, text) ==
    IF patterns = <<>> THEN text
    ELSE SubAll(Tail(patterns), repl, sub(Head(patterns), repl, text))

-----------------------------------------------------------------------------
(* extract_text.clean_text                                                 *)

xml_artifacts == <<
    <<Lit("_"), Lit("x"), Times(HexChars, 4), Lit("_")>>,    \* _x[0-9A-Fa-f]{4}_
    <<Lit("<"), NotPlus({">"}), Lit(">")>>,                 \* <[^>]+>
    <<Lit("&"), Plus(WordChars), Lit(";")>>,                \* &\w+;
    LitSeq(<<"NUL">>),                                      \* \u0000
    LitSeq(<<"SOH", "-", "BS">>),                           \* \u0001-\u0008
    LitSeq(<<"VT", "-", "FF">>),                            \* \u000B-\u000C
    LitSeq(<<"SO", "-", "US">>)                             \* \u000E-\u001F
    >>

whitespace_patterns == <<
    <<Plus({"TAB"})>>,                                      \* \t+
    LitSeq(<<"CR", "LF">>),                                 \* \r\n
    LitSeq(<<"CR">>),                                       \* \r
    <<Plus({"LF"})>>,                                       \* \n+
    LitSeq(<<"FF">>),                                       \* \f
    LitSeq(<<"VT">>),                                       \* \v
    LitSeq(<<"ZWSP">>),                                     \* \u200B
    LitSeq(<<"NBSP">>),                                     \* \u00A0
    LitSeq(<<"ENQUAD", "-", "RLM">>),                       \* \u2000-\u200F
    LitSeq(<<"LSEP", "-", "PSEP">>)                         \* \u2028-\u2029
    >>

\* compiled with re.IGNORECASE
page_break_indicators == <<
    <<Lit("-"), Star(PyWhitespace)>> \o LitSeqI(<<"P", "a", "g", "e">>)
        \o <<Star(PyWhitespace), Plus(Digits), Star(PyWhitespace), Lit("-")>>,
    <<Lit("[")>> \o LitSeqI(<<"p", "a", "g", "e">>)
        \o <<Lit(" "), Plus(Digits), Lit("]")>>,
    LitSeq(<<"FF">>),                                       \* \x0c
    LitSeq(<<"FF">>)                                        \* \f
    >>

\* The lines kept by the duplicate-line loop: stripped, non-empty, first
\* occurrence only.
RECURSIVE UniqueLines(_, _)
UniqueLines(lines, seen) ==
    IF lines = <<>> THEN <<>>
    ELSE LET clean_line == strip(Head(lines))
         IN  IF clean_line # <<>> /\ clean_line \notin seen
             THEN <<clean_line>> \o UniqueLines(Tail(lines), seen \cup {clean_line})
             ELSE UniqueLines(Tail(lines), seen)

clean_text(text) ==
    LET t1 == SubAll(xml_artifacts, <<>>, text)
        t2 == SubAll(whitespace_patterns, <<" ">>, t1)
        t3 == SubAll(page_break_indicators, <<" ">>, t2)
        t4 == strip(sub(<<Plus({" "})>>, <<" ">>, t3))
    IN  join("LF", UniqueLines(split(t4, "LF"), {}))

-----------------------------------------------------------------------------
(* apply_bold_markdown.  A run is [text, bold]; a run whose font.bold was  *)
(* never set is not bold.                                                  *)

\* (\*\*.*?\*\*) : no re.DOTALL, so the dot takes anything but a newline.
BoldPattern == <<Lit("*"), Lit("*"), NotStarLazy({"LF"}), Lit("*"), Lit("*")>>

\* re.split with the whole pattern captured: the text before the first match,
\* the match, the text between, the next match, ..., the text after the last.
RECURSIVE SplitParts(_, _, _)
SplitParts(text, ms, from) ==
    IF ms = <<>> THEN <<Slice(text, from, Len(text))>>
    ELSE LET m   == Head(ms)
             end == m.at + SumSeq(m.lens)
         IN  <<Slice(text, from, m.at), Slice(text, m.at, end)>>
                 \o SplitParts(text, Tail(ms), end)

re_split(pat, text) == SplitParts(text, finditer(pat, text), 0)

\* The run added for one part.
BoldRun(part) ==
    IF startswith(part, <<"*", "*">>) /\ endswith(part, <<"*", "*">>)
    THEN [text |-> IF Len(part) >= 4 THEN Slice(part, 2, Len(part) - 2) ELSE <<>>,
          bold |-> TRUE]                                    \* part[2:-2]
    ELSE [text |-> part, bold |-> FALSE]

\* The runs apply_bold_markdown appends to an empty paragraph.
apply_bold_markdown(text) ==
    LET parts == re_split(BoldPattern, text)
    IN  [k \in DOMAIN parts |-> BoldRun(parts[k])]

RunsText(rs) == Flatten([k \in DOMAIN rs |-> rs[k].text])

-----------------------------------------------------------------------------
(* auto_fit_text.  Only the number of characters of a run matters to it:   *)
(* a box is a sequence of paragraphs, a paragraph a sequence of runs, and  *)
(* a run holds its text, or just n, the length of its text, and size, its  *)
(* point size (0: not set).                                                *)

max_size == 11

min_size == 9

Max2(a, b) == IF a >= b THEN a ELSE b

\* shrink_factor in tenths.
ShrinkTenths(total_chars) ==
    IF total_chars > 1600 THEN 7
    ELSE IF total_chars > 1200 THEN 8
    ELSE IF total_chars > 800 THEN 9
    ELSE 10

\* The size without its lower limit.
font_size_unlimited(total_chars) == (max_size * ShrinkTenths(total_chars)) \div 10

\* max(min_size, int(max_size * shrink_factor)); the float product truncates to
\* the same integer as the exact one for every max_size below 40.
font_size(total_chars) ==
    Max2(min_size, (max_size * ShrinkTenths(total_chars)) \div 10)

\* len(run.text)
RunLen(run) == IF "text" \in DOMAIN run THEN Len(run.text) ELSE run.n

\* sum(len(p.text) for p in tf.paragraphs)
TotalChars(paragraphs) ==
    SumSeq([p \in DOMAIN paragraphs |->
               SumSeq([r \in DOMAIN paragraphs[p] |-> RunLen(paragraphs[p][r])])])

\* The paragraphs after auto_fit_text: every run gets Pt(font_size).
auto_fit_text(paragraphs) ==
    [p \in DOMAIN paragraphs |->
        [r \in DOMAIN paragraphs[p] |->
            [paragraphs[p][r] EXCEPT !.size = font_size(TotalChars(paragraphs))]]]

-----------------------------------------------------------------------------
(* json.loads.  A parse result is [ok, pos, t, v, pairs]: pos the offset   *)
(* after the value, t its Python type ("str", "num", "const", "list",      *)
(* "dict"), v the decoded characters of a str and the source text of any   *)
(* other value, pairs the (key, value) pairs of an object in source order. *)

\* WHITESPACE of json.decoder: [ \t\n\r]*
JsonWs == {" ", "TAB", "LF", "CR"}

SkipWs(s, i) == i + MaxRun(Star(JsonWs), s, i)

JsonFail == [ok |-> FALSE, pos |-> 0, t |-> "none", v |-> <<>>, pairs |-> <<>>]

JsonOk(pos, t, v) == [ok |-> TRUE, pos |-> pos, t |-> t, v |-> v, pairs |-> <<>>]

\* BACKSLASH of json.decoder
JsonEscape(e) ==
    CASE e = "\"" -> "\""
      [] e = "\\" -> "\\"
      [] e = "/"  -> "/"
      [] e = "b"  -> "BS"
      [] e = "f"  -> "FF"
      [] e = "n"  -> "LF"
      [] e = "r"  -> "CR"
      [] e = "t"  -> "TAB"

\* The character of \uXXXX: the ones this model tells apart, and "UCHAR" for
\* every other one.
UnicodeChar(hex) ==
    CASE hex = <<"0", "0", "0", "a">> \/ hex = <<"0", "0", "0", "A">> -> "LF"
      [] hex = <<"0", "0", "2", "0">> -> " "
      [] hex = <<"0", "0", "2", "2">> -> "\""
      [] hex = <<"0", "0", "5", "c">> \/ hex = <<"0", "0", "5", "C">> -> "\\"
      [] OTHER -> "UCHAR"

\* py_scanstring (strict) from the offset after the opening quote.
RECURSIVE ScanString(_, _, _)
ScanString(s, i, acc) ==
    IF i >= Len(s) THEN JsonFail
    ELSE LET c == s[i + 1]
         IN  IF c = "\"" THEN JsonOk(i + 1, "str", acc)
             ELSE IF c = "\\"
             THEN IF i + 1 >= Len(s) THEN JsonFail
                  ELSE LET e == s[i + 2]
                       IN  IF e = "u"
                           THEN IF i + 6 <= Len(s) /\ \A k \in 3..6 : s[i + k] \in HexChars
                                THEN ScanString(s, i + 6,
                                         Append(acc, UnicodeChar(Slice(s, i + 2, i + 6))))
                                ELSE JsonFail
                           ELSE IF e \in {"\"", "\\", "/", "b", "f", "n", "r", "t"}
                           THEN ScanString(s, i + 2, Append(acc, JsonEscape(e)))
                           ELSE JsonFail
             ELSE IF c \in ControlChars \cup {"TAB", "LF", "CR"} THEN JsonFail
             ELSE ScanString(s, i + 1, Append(acc, c))

\* NUMBER_RE: (-?(?:0|[1-9]\d*))(\.\d+)?([eE][-+]?\d+)?
ParseNumber(s, i) ==
    LET j    == IF HasAt(s, <<"-">>, i) THEN i + 1 ELSE i
        int  == IF HasAt(s, <<"0">>, j) THEN 1 ELSE MaxRun(Plus(Digits), s, j)
        k    == j + int
        frac == IF HasAt(s, <<".">>, k) /\ MaxRun(Plus(Digits), s, k + 1) > 0
                THEN 1 + MaxRun(Plus(Digits), s, k + 1) ELSE 0
        m    == k + frac
        sign == IF m + 1 < Len(s) /\ s[m + 2] \in {"+", "-"} THEN 1 ELSE 0
        exp  == IF m < Len(s) /\ s[m + 1] \in {"e", "E"}
                   /\ MaxRun(Plus(Digits), s, m + 1 + sign) > 0
                THEN 1 + sign + MaxRun(Plus(Digits), s, m + 1 + sign) ELSE 0
    IN  IF int = 0 THEN JsonFail ELSE JsonOk(m + exp, "num", Slice(s, i, m + exp))

JsonConstants == <<
    <<"n", "u", "l", "l">>, <<"t", "r", "u", "e">>, <<"f", "a", "l", "s", "e">>,
    <<"N", "a", "N">>, <<"I", "n", "f", "i", "n", "i", "t", "y">>,
    <<"-", "I", "n", "f", "i", "n", "i", "t", "y">> >>

\* scan_once, JSONObject and JSONArray of json.decoder.  i is the offset of the
\* value's first character; open is the offset of the bracket that opens an
\* object or an array, and its items are parsed from the offset after it, white
\* space skipped.
RECURSIVE ParseValue(_, _)
RECURSIVE ParseMembers(_, _, _, _)
RECURSIVE ParseItems(_, _, _)

\* JSONObject: the empty object, or its members from offset i on.
JSONObject(s, open, i) ==
    IF HasAt(s, <<"}">>, i)
    THEN JsonOk(i + 1, "dict", Slice(s, open, i + 1))
    ELSE ParseMembers(s, open, i, <<>>)

\* JSONArray: the empty array, or its items from offset i on.
JSONArray(s, open, i) ==
    IF HasAt(s, <<"]">>, i)
    THEN JsonOk(i + 1, "list", Slice(s, open, i + 1))
    ELSE ParseItems(s, open, i)

ParseValue(s, i) ==
    IF i >= Len(s) THEN JsonFail
    ELSE IF s[i + 1] = "\"" THEN ScanString(s, i + 1, <<>>)
    ELSE IF s[i + 1] = "{" THEN JSONObject(s, i, SkipWs(s, i + 1))
    ELSE IF s[i + 1] = "[" THEN JSONArray(s, i, SkipWs(s, i + 1))
    ELSE IF \E n \in DOMAIN JsonConstants : HasAt(s, JsonConstants[n], i)
    THEN LET n == CHOOSE n \in DOMAIN JsonConstants : HasAt(s, JsonConstants[n], i)
         IN  JsonOk(i + Len(JsonConstants[n]), "const", JsonConstants[n])
    ELSE ParseNumber(s, i)

\* After the pairs read so far, at offset next: the end of the object, or a
\* comma and the next member.
NextMember(s, open, all, next) ==
    IF HasAt(s, <<"}">>, next)
    THEN [ok |-> TRUE, pos |-> next + 1, t |-> "dict",
          v |-> Slice(s, open, next + 1), pairs |-> all]
    ELSE IF HasAt(s, <<",">>, next)
    THEN ParseMembers(s, open, SkipWs(s, next + 1), all)
    ELSE JsonFail

\* The member whose key and value have been scanned.
MemberEnd(s, open, pairs, key, val) ==
    IF ~val.ok THEN JsonFail
    ELSE NextMember(s, open, Append(pairs, [k |-> key.v, t |-> val.t, v |-> val.v]),
                    SkipWs(s, val.pos))

\* The colon at offset colon after the key, and the value after it.
MemberValue(s, open, pairs, key, colon) ==
    IF ~HasAt(s, <<":">>, colon) THEN JsonFail
    ELSE MemberEnd(s, open, pairs, key, ParseValue(s, SkipWs(s, colon + 1)))

\* The member whose key has been scanned.
MemberKey(s, open, pairs, key) ==
    IF ~key.ok THEN JsonFail
    ELSE MemberValue(s, open, pairs, key, SkipWs(s, key.pos))

\* One "key": value member at offset i of the object opened at offset open, and
\* the members after it.
ParseMembers(s, open, i, pairs) ==
    IF ~HasAt(s, <<"\"">>, i) THEN JsonFail
    ELSE MemberKey(s, open, pairs, ScanString(s, i + 1, <<>>))

\* After an item, at offset next: the end of the array, or a comma and the next
\* item.
NextItem(s, open, next) ==
    IF HasAt(s, <<"]">>, next)
    THEN JsonOk(next + 1, "list", Slice(s, open, next + 1))
    ELSE IF HasAt(s, <<",">>, next)
    THEN ParseItems(s, open, SkipWs(s, next + 1))
    ELSE JsonFail

\* The item that has been scanned.
ItemEnd(s, open, val) ==
    IF ~val.ok THEN JsonFail ELSE NextItem(s, open, SkipWs(s, val.pos))

\* One item at offset i of the array opened at offset open, and the items after it.
ParseItems(s, open, i) == ItemEnd(s, open, ParseValue(s, i))

\* JSONDecoder.decode: the value r scanned, white space after it, nothing else.
decode(s, r) ==
    IF ~r.ok THEN JsonFail
    ELSE IF SkipWs(s, r.pos) = Len(s) THEN r
    ELSE JsonFail

\* json.loads(s): one value, white space around it, nothing else.
json_loads(s) == decode(s, ParseValue(s, SkipWs(s, 0)))

-----------------------------------------------------------------------------
(* A Python dict is the sequence of its items [k, t, v] in insertion       *)
(* order, no key twice.                                                    *)

DictKeys(d) == {d[i].k : i \in DOMAIN d}

DictGet(d, key) == d[CHOOSE i \in DOMAIN d : d[i].k = key]

\* d[key] = item: an existing key keeps its place.
DictSet(d, item) ==
    IF item.k \in DictKeys(d)
    THEN [i \in DOMAIN d |-> IF d[i].k = item.k THEN item ELSE d[i]]
    ELSE Append(d, item)

RECURSIVE DictFromPairs(_, _)
DictFromPairs(pairs, d) ==
    IF pairs = <<>> THEN d
    ELSE DictFromPairs(Tail(pairs), DictSet(d, Head(pairs)))

-----------------------------------------------------------------------------
(* summarize_with_gemini, from response.text on.                           *)

\* v.replace('\\n', '\n').strip()
Unescape(v) == strip(replace(v, <<"\\", "n">>, <<"LF">>))

\* {k: ... for k, v in data.items()}: the strings unescaped, the other values
\* kept as they are.
UnescapeValues(d) ==
    [i \in DOMAIN d |->
        IF d[i].t = "str" THEN [d[i] EXCEPT !.v = Unescape(d[i].v)] ELSE d[i]]

\* data.items() and the loop over it, for the value r that json.loads returned
\* or failed to return.
ItemsOf(r) ==
    IF ~r.ok THEN [raised |-> "JSONDecodeError", data |-> <<>>]
    ELSE IF r.t # "dict" THEN [raised |-> "AttributeError", data |-> <<>>]
    ELSE [raised |-> "none", data |-> UnescapeValues(DictFromPairs(r.pairs, <<>>))]

\* The try block: json.loads, then data.items() and the loop over it.  raised is
\* the exception that leaves the block, "none" when none does.
TryJson(content) == ItemsOf(json_loads(content))

\* "(\w+)"\s*:\s*"([^"]*)"
PairPattern == <<Lit("\""), Plus(WordChars), Lit("\""), Star(PyWhitespace), Lit(":"),
                 Star(PyWhitespace), Lit("\""), NotStar({"\""}), Lit("\"")>>

\* match.group(n) for the group that is element el of the pattern.
Group(s, m, el) ==
    LET before == SumSeq(SubSeq(m.lens, 1, el - 1))
    IN  Slice(s, m.at + before, m.at + before + m.lens[el])

\* The except block: data[match.group(1)] = match.group(2)... for each match.
RECURSIVE FallbackFrom(_, _, _)
FallbackFrom(content, ms, d) ==
    IF ms = <<>> THEN d
    ELSE FallbackFrom(content, Tail(ms),
             DictSet(d, [k |-> Group(content, Head(ms), 2), t |-> "str",
                         v |-> Unescape(Group(content, Head(ms), 8))]))

RegexFallback(content) == FallbackFrom(content, finditer(PairPattern, content), <<>>)

\* A handler that catches the decoder's error only.
CaughtDecodeErrorOnly(exc) == exc = "JSONDecodeError"

\* except Exception: every exception of the try block is caught.
Caught(exc) == TRUE

\* The try statement for the outcome try of its try block: the except block runs
\* when the exception is caught.
TryExcept(content, try) ==
    IF try.raised = "none" THEN try
    ELSE IF Caught(try.raised)
    THEN [raised |-> "none", data |-> RegexFallback(content)]
    ELSE try

\* The content stripped, parsed.
ParseContent(content) == TryExcept(content, TryJson(content))

\* What summarize_with_gemini does with response.text: [raised, data].
parse_response(text) == ParseContent(strip(text))

-----------------------------------------------------------------------------
(* summarize_with_gemini, before the call: the text put in the prompt.     *)

\* The characters of this model outside \x00-\x7F.
NonAscii == {"NEL", "NBSP", "ZWSP", "ENQUAD", "RLM", "LSEP", "PSEP", "UCHAR"}

\* re.sub(r'[^\x00-\x7F]+', ' ', text), then re.sub(r'\s+', ' ', text).strip()
prompt_text(t) ==
    strip(sub(<<Plus(PyWhitespace)>>, <<" ">>, sub(<<Plus(NonAscii)>>, <<" ">>, t)))

-----------------------------------------------------------------------------
(* fill_ppt_template.  The presentation is the sequence of the shapes of   *)
(* its slides, in the order the two loops visit them; a shape is           *)
(* [has_text_frame, paragraphs], a run [text, bold, size, name, color].    *)
(* python-pptx: shape.text joins the paragraphs' texts with "\n";          *)
(* tf.clear() leaves one empty paragraph; tf.add_paragraph() appends.      *)

\* shape.text
ShapeText(paragraphs) ==
    join("LF", [p \in DOMAIN paragraphs |-> RunsText(paragraphs[p])])

\* f"{{{{{key.upper()}}}}}"
Placeholder(key) == <<"{", "{">> \o upper(key) \o <<"}", "}">>

WhiteKeys == {<<"n", "a", "m", "e">>, <<"r", "o", "l", "e">>,
              <<"l", "o", "c", "a", "t", "i", "o", "n">>,
              <<"e", "d", "u", "c", "a", "t", "i", "o", "n", "_", "a", "n", "d", "_",
                "c", "e", "r", "t", "i", "f", "i", "c", "a", "t", "i", "o", "n">>}

\* The paragraph tf.clear() leaves.
ClearedFrame == << <<>> >>

\* The paragraph added for one line, its runs in the font of the key.
LineParagraph(text, key) ==
    LET rs == apply_bold_markdown(text)
    IN  [k \in DOMAIN rs |->
            [text |-> rs[k].text, bold |-> rs[k].bold, size |-> 0, name |-> "Aptos",
             color |-> IF key \in WhiteKeys THEN "white" ELSE "dark"]]

\* The frame rebuilt from new_text: the cleared frame, then a paragraph per line.
RebuiltFrame(new_text, key) ==
    LET lines == split(new_text, "LF")
    IN  ClearedFrame \o [k \in DOMAIN lines |-> LineParagraph(lines[k], key)]

\* str.replace(old, new, 1)
ReplaceFirst(s, old, new) ==
    IF ~Contains(s, old) THEN s
    ELSE LET i == SetMin({j \in 0..Len(s) : HasAt(s, old, j)})
         IN  Slice(s, 0, i) \o new \o Slice(s, i + Len(old), Len(s))

\* The loop body replacing the first occurrence of the placeholder only.
FillItemFirstOnly(paragraphs, item) ==
    IF ~Contains(ShapeText(paragraphs), Placeholder(item.k))
    THEN [raised |-> "none", paragraphs |-> paragraphs, new_text |-> <<>>]
    ELSE IF item.t # "str"
    THEN [raised |-> "TypeError", paragraphs |-> paragraphs, new_text |-> <<>>]
    ELSE LET new_text == ReplaceFirst(ShapeText(paragraphs), Placeholder(item.k), item.v)
         IN  [raised |-> "none",
              paragraphs |-> auto_fit_text(RebuiltFrame(new_text, item.k)),
              new_text |-> <<new_text>>]

\* The body of the loop over data.items() for one item and one shape's
\* paragraphs: [raised, paragraphs, new_text], new_text the text substituted (in
\* a one-element sequence) when the placeholder was there.  str.replace raises
\* TypeError for a val that is no str.
FillItem(paragraphs, item) ==
    IF ~Contains(ShapeText(paragraphs), Placeholder(item.k))
    THEN [raised |-> "none", paragraphs |-> paragraphs, new_text |-> <<>>]
    ELSE IF item.t # "str"
    THEN [raised |-> "TypeError", paragraphs |-> paragraphs, new_text |-> <<>>]
    ELSE LET new_text == replace(ShapeText(paragraphs), Placeholder(item.k), item.v)
         IN  [raised |-> "none",
              paragraphs |-> auto_fit_text(RebuiltFrame(new_text, item.k)),
              new_text |-> <<new_text>>]

\* The loop over data.items() for one shape, from item k on.
RECURSIVE FillShapeFrom(_, _, _)
FillShapeFrom(paragraphs, d, k) ==
    IF k > Len(d) THEN [raised |-> "none", paragraphs |-> paragraphs]
    ELSE LET r == FillItem(paragraphs, d[k])
         IN  IF r.raised # "none" THEN [raised |-> r.raised, paragraphs |-> r.paragraphs]
             ELSE FillShapeFrom(r.paragraphs, d, k + 1)

\* The loops over the slides' shapes, from shape n on: [raised, shapes].
RECURSIVE FillShapesFrom(_, _, _)
FillShapesFrom(shapes, d, n) ==
    IF n > Len(shapes) THEN [raised |-> "none", shapes |-> shapes]
    ELSE IF ~shapes[n].has_text_frame THEN FillShapesFrom(shapes, d, n + 1)
    ELSE LET r    == FillShapeFrom(shapes[n].paragraphs, d, 1)
             done == [shapes EXCEPT ![n].paragraphs = r.paragraphs]
         IN  IF r.raised # "none" THEN [raised |-> r.raised, shapes |-> done]
             ELSE FillShapesFrom(done, d, n + 1)

\* fill_ppt_template on a template that loads: [raised, shapes], shapes what
\* prs.save writes when nothing was raised.
fill_ppt_template(shapes, d) == FillShapesFrom(shapes, d, 1)

-----------------------------------------------------------------------------
(* clean_text applied to every short text over CleanAlphabet.              *)

MaxCleanLen == 3

CleanAlphabet == {"NUL", "SOH", "-", "BS", "VT", "US", "LF", "a"}

CleanIdle == cleanIn = <<>> /\ cleanOut = <<>> /\ cleanPc = "idle"

BoldIdle == line = <<>> /\ runs = <<>> /\ boldPc = "idle"

FitIdle == shape = <<>> /\ fitPrev = <<>> /\ fitPc = "idle"

ParseIdle ==
    /\ responseText = <<>>
    /\ parsed = [raised |-> "none", data |-> <<>>]
    /\ parsePc = "idle"

RunIdle ==
    /\ pc = "off" /\ clicks = 0 /\ ui = {} /\ steps = <<>> /\ returned = {}
    /\ failed = {} /\ apiCalls = 0 /\ doc = <<>> /\ extracted = <<>> /\ sent = <<>>

FillIdle ==
    /\ template = <<>> /\ prs = <<>> /\ data = <<>> /\ si = 0 /\ ki = 0
    /\ lastNewText = <<>> /\ fillPc = "idle"

CleanInit ==
    /\ cleanIn \in SeqsUpTo(CleanAlphabet, MaxCleanLen)
    /\ cleanOut = <<>>
    /\ cleanPc = "call"
    /\ BoldIdle /\ FitIdle /\ ParseIdle /\ FillIdle /\ RunIdle

CleanText ==
    /\ cleanPc = "call"
    /\ cleanOut' = clean_text(cleanIn)
    /\ cleanPc' = "returned"
    /\ UNCHANGED <<cleanIn, boldVars, fitVars, parseVars, fillVars, runVars>>

CleanNext == CleanText

SpecClean == CleanInit /\ [][CleanNext]_vars

\* C7: the text returned by clean_text holds no null character and no control
\* character of U+0001..U+0008, U+000B..U+000C, U+000E..U+001F.
C7_NoControlChars ==
    cleanPc = "returned" => \A i \in DOMAIN cleanOut : cleanOut[i] \notin ControlChars

-----------------------------------------------------------------------------
(* apply_bold_markdown applied to every short line over BoldAlphabet (a    *)
(* line comes from split("\n") and holds no newline).                      *)

MaxLineLen == 6

BoldAlphabet == {"*", "a", "b"}

BoldInit ==
    /\ line \in SeqsUpTo(BoldAlphabet, MaxLineLen)
    /\ runs = <<>>
    /\ boldPc = "call"
    /\ CleanIdle /\ FitIdle /\ ParseIdle /\ FillIdle /\ RunIdle

ApplyBoldMarkdown ==
    /\ boldPc = "call"
    /\ runs' = runs \o apply_bold_markdown(line)
    /\ boldPc' = "returned"
    /\ UNCHANGED <<line, cleanVars, fitVars, parseVars, fillVars, runVars>>

BoldNext == ApplyBoldMarkdown

SpecBold == BoldInit /\ [][BoldNext]_vars

\* The offsets (0-based) of the delimiter characters of the matched spans.
DelimiterOffsets(text) ==
    LET ms == finditer(BoldPattern, text)
    IN  UNION {{ms[k].at, ms[k].at + 1,
                ms[k].at + SumSeq(ms[k].lens) - 2,
                ms[k].at + SumSeq(ms[k].lens) - 1} : k \in DOMAIN ms}

\* text without the characters at the offsets in drop.
RECURSIVE Without(_, _, _)
Without(text, drop, i) ==
    IF i >= Len(text) THEN <<>>
    ELSE (IF i \in drop THEN <<>> ELSE <<text[i + 1]>>) \o Without(text, drop, i + 1)

\* The contents of the matched spans, in order.
SpanContents(text) ==
    LET ms == finditer(BoldPattern, text)
    IN  [k \in DOMAIN ms |->
            Slice(text, ms[k].at + 2, ms[k].at + SumSeq(ms[k].lens) - 2)]

\* C5: the runs' texts, concatenated, are the line with exactly the two-asterisk
\* delimiters of each matched **...** span removed, and the bold runs are exactly
\* the contents of the matched spans, in order.
C5_BoldRuns ==
    boldPc = "returned" =>
        /\ RunsText(runs) = Without(line, DelimiterOffsets(line), 0)
        /\ LET bolds == SelectSeq(runs, LAMBDA r : r.bold)
           IN  [k \in DOMAIN bolds |-> bolds[k].text] = SpanContents(line)

-----------------------------------------------------------------------------
(* auto_fit_text applied to boxes of a few runs whose lengths straddle its *)
(* thresholds, and applied again after the box's text changed (as          *)
(* fill_ppt_template does for each placeholder it replaces in a box).      *)

MaxFitParas == 2

MaxFitRuns == 1

RunLens == {400, 801}

FitParagraphs == SeqsUpTo([n : RunLens, size : {0}], MaxFitRuns)

FitBoxes == UNION {[1..k -> FitParagraphs] : k \in 1..MaxFitParas}

BoxRuns(paragraphs) == Flatten(paragraphs)

FitInit ==
    /\ shape \in FitBoxes
    /\ fitPrev = <<>>
    /\ fitPc = "call"
    /\ CleanIdle /\ BoldIdle /\ ParseIdle /\ FillIdle /\ RunIdle

AutoFitText ==
    /\ fitPc = "call"
    /\ shape' = auto_fit_text(shape)
    /\ fitPc' = "returned"
    /\ UNCHANGED <<fitPrev, cleanVars, boldVars, parseVars, fillVars, runVars>>

\* The box's text is rebuilt (new runs, no size set) and fitted again.
Refill ==
    /\ fitPc = "returned"
    /\ fitPrev = <<>>
    /\ \E b \in FitBoxes :
        /\ shape' = b
        /\ fitPrev' = <<[total |-> TotalChars(shape),
                         sizes |-> {BoxRuns(shape)[r].size : r \in DOMAIN BoxRuns(shape)}]>>
    /\ fitPc' = "call"
    /\ UNCHANGED <<cleanVars, boldVars, parseVars, fillVars, runVars>>

FitNext == AutoFitText \/ Refill

SpecFit == FitInit /\ [][FitNext]_vars

\* C6: auto_fit_text sets one integer size on every run of the box, between
\* min_size and max_size, equal to max_size when the box holds at most 800
\* characters, and not larger than the size it set on a box of fewer characters.
C6_FontSize ==
    fitPc = "returned" =>
        \E s \in min_size..max_size :
            /\ \A r \in DOMAIN BoxRuns(shape) : BoxRuns(shape)[r].size = s
            /\ TotalChars(shape) <= 800 => s = max_size
            /\ \A k \in DOMAIN fitPrev :
                 fitPrev[k].total <= TotalChars(shape) =>
                    \A z \in fitPrev[k].sizes : z >= s

\* A box of more than 1600 characters has been fitted after one of fewer.
C6_Witness ==
    /\ fitPc = "returned"
    /\ TotalChars(shape) > 1600
    /\ BoxRuns(shape) # <<>>
    /\ \E k \in DOMAIN fitPrev :
         fitPrev[k].total < TotalChars(shape) /\ fitPrev[k].sizes = {max_size}

-----------------------------------------------------------------------------
(* The response parsing applied to every text made of a few fragments of   *)
(* JSON: objects with string and other values, a repeated key, escaped and *)
(* doubly escaped newlines, an array, a bare string, white space around.   *)

MaxFrags == 4

Fragments == {
    <<"{">>,
    <<"}">>,
    <<"\"", "a", "\"", ":", "\"", "b", "\"">>,                        \* "a":"b"
    <<",", "\"", "a", "\"", ":", " ", "\"", " ", "c", "\\", "\\", "n", " ", "\"">>,
                                                                      \* ,"a": " c\\n "
    <<",", "\"", "b", "\"", ":", "[", "1", "]">>,                     \* ,"b":[1]
    <<"\"", "b", "\"", ":", "\"", "x", "\\", "n", "y", "\"">>,        \* "b":"x\ny"
    <<" ">>,
    <<"[", "]">>,                                                     \* []
    <<"\"", "a", "\"">> }                                             \* "a"

ResponseTexts == {Flatten(q) : q \in SeqsUpTo(Fragments, MaxFrags)}

ParseInit ==
    /\ responseText \in ResponseTexts
    /\ parsed = [raised |-> "none", data |-> <<>>]
    /\ parsePc = "call"
    /\ CleanIdle /\ BoldIdle /\ FitIdle /\ FillIdle /\ RunIdle

ParseResponse ==
    /\ parsePc = "call"
    /\ parsed' = parse_response(responseText)
    /\ parsePc' = IF parsed'.raised = "none" THEN "returned" ELSE "raised"
    /\ UNCHANGED <<responseText, cleanVars, boldVars, fitVars, fillVars, runVars>>

ParseNext == ParseResponse

SpecParse == ParseInit /\ [][ParseNext]_vars

\* The last element of the sequence q whose key (given by KeyOf) is key.
LastWith(q, KeyOf(_), key) == q[SetMax({i \in DOMAIN q : KeyOf(q[i]) = key})]

\* What the claim expects of the item got for key, when the stripped text is a
\* JSON object whose last member for key is last.
ExpectedOfJson(got, last) ==
    IF last.t = "str"
    THEN got.t = "str" /\ got.v = strip(replace(last.v, <<"\\", "n">>, <<"LF">>))
    ELSE got.t = last.t /\ got.v = last.v

\* C3: response parsing does not raise and returns a dictionary: of a JSON
\* object, the object with every string value unescaped (backslash-n to newline)
\* and stripped; of any other text, the "key": "value" pairs the regex matches,
\* a later match overriding an earlier one, the values unescaped and stripped.
C3_ParseResponse ==
    parsePc # "call" =>
        /\ parsePc = "returned"
        /\ parsed.raised = "none"
        /\ Cardinality(DictKeys(parsed.data)) = Len(parsed.data)
        /\ LET content == strip(responseText)
               json    == json_loads(content)
               ms      == finditer(PairPattern, content)
           IN  IF json.ok /\ json.t = "dict"
               THEN /\ DictKeys(parsed.data) = {json.pairs[i].k : i \in DOMAIN json.pairs}
                    /\ \A key \in DictKeys(parsed.data) :
                         ExpectedOfJson(DictGet(parsed.data, key),
                                        LastWith(json.pairs, LAMBDA m : m.k, key))
               ELSE /\ DictKeys(parsed.data) = {Group(content, ms[i], 2) : i \in DOMAIN ms}
                    /\ \A key \in DictKeys(parsed.data) :
                         LET got  == DictGet(parsed.data, key)
                             last == LastWith(ms, LAMBDA m : Group(content, m, 2), key)
                         IN  /\ got.t = "str"
                             /\ got.v = strip(replace(Group(content, last, 8),
                                                      <<"\\", "n">>, <<"LF">>))

\* A text that is not JSON has been parsed by the regex fallback, and the later
\* of two matches for one key has overridden the earlier.
C3_Witness ==
    /\ parsePc = "returned"
    /\ ~json_loads(strip(responseText)).ok
    /\ Len(finditer(PairPattern, strip(responseText))) = 2
    /\ parsed.data = <<[k |-> <<"a">>, t |-> "str", v |-> <<"c", "\\">>]>>

-----------------------------------------------------------------------------
(* fill_ppt_template, one pass of its loops at a time, on small templates  *)
(* and dictionaries: placeholders once, twice, side by side, in two        *)
(* paragraphs, malformed; values with a newline, bold delimiters, a        *)
(* placeholder, and a value that is no str.                                *)

MaxValFrags == 1

NameKey == <<"n", "a", "m", "e">>

SkillsKey == <<"s", "k", "i", "l", "l", "s">>

ValueFragments == {<<"a">>, <<"*", "*">>, <<"LF">>, <<"*", "*", "a", "*", "*">>,
                   Placeholder(NameKey)}

ValueTexts == {Flatten(q) : q \in SeqsUpTo(ValueFragments, MaxValFrags)}

Values == [t : {"str"}, v : ValueTexts] \cup {[t |-> "list", v |-> <<"[", "]">>]}

Item(key, val) == [k |-> key, t |-> val.t, v |-> val.v]

Dicts ==
    {<<>>}
    \cup {<<Item(NameKey, x)>> : x \in Values}
    \cup {<<Item(NameKey, x), Item(SkillsKey, y)>> : x \in Values, y \in Values}
    \cup {<<Item(SkillsKey, y), Item(NameKey, x)>> : x \in Values, y \in Values}

TemplateTexts == {
    Placeholder(NameKey),
    <<"a">>,
    Placeholder(NameKey) \o Placeholder(NameKey),
    Placeholder(SkillsKey) \o <<"LF">> \o Placeholder(NameKey),
    <<"a">> \o Placeholder(NameKey) \o Placeholder(SkillsKey),
    <<"{", "*", "*", "{", "N", "A", "M", "E", "}", "}">> \o Placeholder(SkillsKey),
    <<"{", "{", "N", "A">> \o Placeholder(SkillsKey) \o <<"M", "E", "}", "}">> }

TemplateRun(text) == [text |-> text, bold |-> FALSE, size |-> 0, name |-> "", color |-> ""]

\* A text box of the template: a paragraph of one run for each line of its text.
TextBox(text) ==
    LET lines == split(text, "LF")
    IN  [has_text_frame |-> TRUE,
         paragraphs |-> [k \in DOMAIN lines |->
                            IF lines[k] = <<>> THEN <<>> ELSE <<TemplateRun(lines[k])>>]]

Picture == [has_text_frame |-> FALSE, paragraphs |-> <<>>]

Templates ==
    {<<TextBox(t)>> : t \in TemplateTexts}
    \cup {<<Picture, TextBox(Placeholder(NameKey))>>,
          <<TextBox(Placeholder(NameKey)), TextBox(Placeholder(SkillsKey))>>}

FillInit ==
    /\ template \in Templates
    /\ prs = template
    /\ data \in Dicts
    /\ si = 1 /\ ki = 1
    /\ lastNewText = <<>>
    /\ fillPc = "shapes"
    /\ CleanIdle /\ BoldIdle /\ FitIdle /\ ParseIdle /\ RunIdle

othersOfFill == <<cleanVars, boldVars, fitVars, parseVars, runVars>>

\* if not shape.has_text_frame: continue
SkipShape ==
    /\ fillPc = "shapes" /\ si <= Len(prs)
    /\ ~prs[si].has_text_frame
    /\ si' = si + 1 /\ ki' = 1 /\ lastNewText' = <<>>
    /\ UNCHANGED <<template, prs, data, fillPc, othersOfFill>>

\* The placeholder of the item is not in the shape's text.
KeepText ==
    /\ fillPc = "shapes" /\ si <= Len(prs)
    /\ prs[si].has_text_frame /\ ki <= Len(data)
    /\ LET r == FillItem(prs[si].paragraphs, data[ki])
       IN  /\ r.raised = "none" /\ r.new_text = <<>>
           /\ ki' = ki + 1 /\ lastNewText' = <<>>
    /\ UNCHANGED <<template, prs, data, si, fillPc, othersOfFill>>

\* The placeholder is there: the frame is rebuilt from the new text.
ReplacePlaceholder ==
    /\ fillPc = "shapes" /\ si <= Len(prs)
    /\ prs[si].has_text_frame /\ ki <= Len(data)
    /\ LET r == FillItem(prs[si].paragraphs, data[ki])
       IN  /\ r.raised = "none" /\ r.new_text # <<>>
           /\ prs' = [prs EXCEPT ![si].paragraphs = r.paragraphs]
           /\ ki' = ki + 1 /\ lastNewText' = r.new_text
    /\ UNCHANGED <<template, data, si, fillPc, othersOfFill>>

\* The placeholder is there and the value is no str: str.replace raises.
RaiseTypeError ==
    /\ fillPc = "shapes" /\ si <= Len(prs)
    /\ prs[si].has_text_frame /\ ki <= Len(data)
    /\ FillItem(prs[si].paragraphs, data[ki]).raised # "none"
    /\ fillPc' = "raised" /\ lastNewText' = <<>>
    /\ UNCHANGED <<template, prs, data, si, ki, othersOfFill>>

\* The loop over data.items() is through: the next shape.
NextShape ==
    /\ fillPc = "shapes" /\ si <= Len(prs)
    /\ prs[si].has_text_frame /\ ki > Len(data)
    /\ si' = si + 1 /\ ki' = 1 /\ lastNewText' = <<>>
    /\ UNCHANGED <<template, prs, data, fillPc, othersOfFill>>

\* prs.save(output_path)
Save ==
    /\ fillPc = "shapes" /\ si > Len(prs)
    /\ fillPc' = "saved"
    /\ UNCHANGED <<template, prs, data, si, ki, lastNewText, othersOfFill>>

FillNext ==
    SkipShape \/ KeepText \/ ReplacePlaceholder \/ RaiseTypeError \/ NextShape \/ Save

SpecFill == FillInit /\ [][FillNext]_vars

\* The steps amount to fill_ppt_template.
FillStepsAgree ==
    fillPc \in {"saved", "raised"} =>
        LET r == fill_ppt_template(template, data)
        IN  prs = r.shapes /\ (fillPc = "raised") = (r.raised # "none")

Braces == {"{", "}"}

HasBrace(text) == \E i \in DOMAIN text : text[i] \in Braces

AllStrings(d) == \A i \in DOMAIN d : d[i].t = "str"

\* Some text box still holds the placeholder of a key of the dictionary.
PlaceholderLeft ==
    \E n \in DOMAIN prs, i \in DOMAIN data :
        /\ prs[n].has_text_frame
        /\ Contains(ShapeText(prs[n].paragraphs), Placeholder(data[i].k))

PlaceholderPattern ==
    <<Lit("{"), Lit("{"), Plus(WordChars), Lit("}"), Lit("}")>>

\* A text with no asterisk and no brace outside whole {{WORD}} placeholders.
PlainTemplateText(text) ==
    /\ \A i \in DOMAIN text : text[i] # "*"
    /\ ~HasBrace(sub(PlaceholderPattern, <<>>, text))

BoldStripped(text) == Without(text, DelimiterOffsets(text), 0)

\* C10: after a placeholder was replaced in a box, the box's paragraphs are
\* exactly the lines of the substituted text, bold delimiters removed, in order.
C10_ParagraphsAreLines ==
    lastNewText # <<>> =>
        LET lines == split(lastNewText[1], "LF")
            paras == prs[si].paragraphs
        IN  [p \in DOMAIN paras |-> RunsText(paras[p])]
                = [k \in DOMAIN lines |-> BoldStripped(lines[k])]

-----------------------------------------------------------------------------
(* The script.  Each click of the button runs it once, from the top:       *)
(* extract_text, summarize_with_gemini, fill_ppt_template, the success     *)
(* message and the download button.  An element shown is [kind, about].    *)
(* extract_text catches its own exceptions and shows st.error; an          *)
(* exception of the two other steps is caught nowhere in the script: it    *)
(* ends the run and Streamlit's script runner shows it in the page.        *)

MaxClicks == 2

StepOrder == <<"extract_text", "summarize_with_gemini", "fill_ppt_template">>

\* The text of the uploaded document, as the parsing library gives it.
Documents == {<<"a", " ", " ", "b", "LF", "a">>, <<"SOH", "NBSP", "c">>}

\* response.text of the service.
Responses == {
    <<"{", "\"", "n", "a", "m", "e", "\"", ":", "\"", "a", "\"", "}">>,
                                                          \* {"name":"a"}
    <<"{", "\"", "n", "a", "m", "e", "\"", ":", "[", "1", "]", "}">>,
                                                          \* {"name":[1]}
    <<"j", "s", "o", "n", "LF", "{", "\"", "n", "a", "m", "e", "\"", ":", " ",
      "\"", "*", "*", "a", "*", "*", "\\", "n", "b", "\"", "}">>,
                                                          \* json\n{"name": "**a**\nb"}
    <<"n", "o">> }                                        \* no

RunTemplates == {<<TextBox(Placeholder(NameKey))>>, <<Picture, TextBox(<<"a">>)>>}

Shown(kind, about) == [kind |-> kind, about |-> about]

\* What Streamlit shows for an exception that leaves the script.
ScriptException(step) == Shown("exception", step)

Init ==
    /\ pc = "idle" /\ clicks = 0 /\ ui = {} /\ steps = <<>> /\ returned = {}
    /\ failed = {} /\ apiCalls = 0 /\ doc = <<>> /\ extracted = <<>> /\ sent = <<>>
    /\ template = <<>> /\ prs = <<>> /\ data = <<>> /\ si = 0 /\ ki = 0
    /\ lastNewText = <<>> /\ fillPc = "idle"
    /\ CleanIdle /\ BoldIdle /\ FitIdle /\ ParseIdle

othersOfRun == <<cleanVars, boldVars, fitVars, parsePc, si, ki, lastNewText>>

\* if process_button: the script runs from the top on a document uploaded.
Click ==
    /\ pc \in {"idle", "ended"}
    /\ clicks < MaxClicks
    /\ clicks' = clicks + 1
    /\ doc' \in Documents
    /\ template' \in RunTemplates
    /\ pc' = "extract"
    /\ ui' = {} /\ steps' = <<>> /\ returned' = {} /\ failed' = {} /\ apiCalls' = 0
    /\ extracted' = <<>> /\ sent' = <<>> /\ data' = <<>> /\ prs' = <<>>
    /\ responseText' = <<>> /\ parsed' = [raised |-> "none", data |-> <<>>]
    /\ fillPc' = "idle"
    /\ UNCHANGED othersOfRun

\* text = extract_text(input_path), the document parsed.
ExtractReturnsText ==
    /\ pc = "extract"
    /\ steps' = Append(steps, "extract_text")
    /\ extracted' = clean_text(doc)
    /\ returned' = returned \cup {"extract_text"}
    /\ pc' = "summarize"
    /\ UNCHANGED <<clicks, ui, failed, apiCalls, doc, sent, parseVars, template, prs,
                   data, fillPc, othersOfRun>>

\* extract_text swallowing the exception: return "" and no st.error.
ExtractFailsSilently ==
    /\ pc = "extract"
    /\ steps' = Append(steps, "extract_text")
    /\ failed' = failed \cup {"extract_text"}
    /\ extracted' = <<>>
    /\ returned' = returned \cup {"extract_text"}
    /\ pc' = "summarize"
    /\ UNCHANGED <<clicks, ui, apiCalls, doc, sent, parseVars, template, prs, data,
                   fillPc, othersOfRun>>

\* extract_text with an exception in its try block: st.error, return "".
ExtractFails ==
    /\ pc = "extract"
    /\ steps' = Append(steps, "extract_text")
    /\ failed' = failed \cup {"extract_text"}
    /\ ui' = ui \cup {Shown("error", "extract_text")}
    /\ extracted' = <<>>
    /\ returned' = returned \cup {"extract_text"}
    /\ pc' = "summarize"
    /\ UNCHANGED <<clicks, apiCalls, doc, sent, parseVars, template, prs, data, fillPc,
                   othersOfRun>>

\* data = summarize_with_gemini(text), the service answering with a text.
SummarizeReturns ==
    /\ pc = "summarize"
    /\ steps' = Append(steps, "summarize_with_gemini")
    /\ sent' = prompt_text(extracted)
    /\ apiCalls' = apiCalls + 1
    /\ responseText' \in Responses
    /\ parsed' = parse_response(responseText')
    /\ IF parsed'.raised = "none"
       THEN /\ data' = parsed'.data
            /\ returned' = returned \cup {"summarize_with_gemini"}
            /\ pc' = "fill"
            /\ UNCHANGED <<ui, failed>>
       ELSE /\ data' = <<>>
            /\ failed' = failed \cup {"summarize_with_gemini"}
            /\ ui' = ui \cup {ScriptException("summarize_with_gemini")}
            /\ pc' = "ended"
            /\ UNCHANGED returned
    /\ UNCHANGED <<clicks, doc, extracted, template, prs, fillPc, othersOfRun>>

\* summarize_with_gemini calling the service again when the call raised.
SummarizeFailsRetry ==
    /\ pc = "summarize"
    /\ apiCalls <= 1
    /\ steps' = IF apiCalls = 0 THEN Append(steps, "summarize_with_gemini") ELSE steps
    /\ sent' = prompt_text(extracted)
    /\ apiCalls' = apiCalls + 1
    /\ UNCHANGED <<pc, clicks, ui, failed, returned, doc, extracted, parseVars, template,
                   prs, data, fillPc, othersOfRun>>

\* summarize_with_gemini with generate_content raising, or answering without a
\* text (response.text is None): the exception leaves the script.
SummarizeFails ==
    /\ pc = "summarize"
    /\ steps' = Append(steps, "summarize_with_gemini")
    /\ sent' = prompt_text(extracted)
    /\ apiCalls' = apiCalls + 1
    /\ failed' = failed \cup {"summarize_with_gemini"}
    /\ ui' = ui \cup {ScriptException("summarize_with_gemini")}
    /\ pc' = "ended"
    /\ UNCHANGED <<clicks, returned, doc, extracted, parseVars, template, prs, data, fillPc,
                   othersOfRun>>

\* fill_ppt_template(template_path, data, output_path), the template loaded
\* and the result saved.
FillReturns ==
    /\ pc = "fill"
    /\ fill_ppt_template(template, data).raised = "none"
    /\ steps' = Append(steps, "fill_ppt_template")
    /\ prs' = fill_ppt_template(template, data).shapes
    /\ fillPc' = "saved"
    /\ returned' = returned \cup {"fill_ppt_template"}
    /\ pc' = "success"
    /\ UNCHANGED <<clicks, ui, failed, apiCalls, doc, extracted, sent, parseVars, template,
                   data, othersOfRun>>

\* fill_ppt_template raising: str.replace on a value that is no str, or the
\* template not loading, or the result not saved.
FillFails ==
    /\ pc = "fill"
    /\ steps' = Append(steps, "fill_ppt_template")
    /\ fillPc' = "raised"
    /\ failed' = failed \cup {"fill_ppt_template"}
    /\ ui' = ui \cup {ScriptException("fill_ppt_template")}
    /\ pc' = "ended"
    /\ UNCHANGED <<clicks, returned, apiCalls, doc, extracted, sent, parseVars, template,
                   prs, data, othersOfRun>>

\* st.success(...) and st.download_button(...)
ShowSuccess ==
    /\ pc = "success"
    /\ ui' = ui \cup {Shown("success", "run"), Shown("download", "run")}
    /\ pc' = "ended"
    /\ UNCHANGED <<clicks, steps, returned, failed, apiCalls, doc, extracted, sent,
                   parseVars, template, prs, data, fillPc, othersOfRun>>

Next ==
    \/ Click
    \/ ExtractReturnsText
    \/ ExtractFails
    \/ SummarizeReturns
    \/ SummarizeFails
    \/ FillReturns
    \/ FillFails
    \/ ShowSuccess

Spec == Init /\ [][Next]_vars

IsPrefix(p, q) == Len(p) <= Len(q) /\ \A i \in DOMAIN p : p[i] = q[i]

\* C1: whenever a step of the run has failed, an error about it is shown.
C1_FailureShown ==
    \A step \in failed :
        \E e \in ui : e.kind \in {"error", "exception"} /\ e.about = step

\* The success-less end of a run whose summarization failed.
C1_Witness ==
    /\ pc = "ended"
    /\ failed = {"extract_text", "summarize_with_gemini"}

\* C2: the steps of a run are called in the order extract_text,
\* summarize_with_gemini, fill_ppt_template, each at most once; the service is
\* called at most once; fill_ppt_template is not called before
\* summarize_with_gemini has returned.
C2_OrderAndOnce ==
    /\ IsPrefix(steps, StepOrder)
    /\ apiCalls <= 1
    /\ apiCalls = Cardinality({i \in DOMAIN steps : steps[i] = "summarize_with_gemini"})
    /\ (\E i \in DOMAIN steps : steps[i] = "fill_ppt_template")
          => "summarize_with_gemini" \in returned

\* A second run has gone through its three steps after an unparseable answer.
C2_Witness ==
    /\ clicks = 2
    /\ steps = StepOrder
    /\ apiCalls = 1
    /\ data = <<>>
    /\ responseText = <<"n", "o">>

\* C8: the values of the dictionary summarize_with_gemini returns are all
\* strings, and fill_ppt_template never replaces a placeholder by a value that
\* is no string.
C8_ValuesAreStrings ==
    /\ "summarize_with_gemini" \in returned => AllStrings(data)
    /\ fillPc # "raised"

\* C9: the success message and the download button are shown only in a run
\* whose three steps completed without failure.
C9_SuccessOnlyIfNoFailure ==
    (\E e \in ui : e.kind \in {"success", "download"}) =>
        /\ failed = {}
        /\ returned = Range(StepOrder)

====
